---- MODULE Spec2Model ----
(***************************************************************************)
(* An AsciiDoc-like markup parser (src/src/main.rs) built from combine     *)
(* parser combinators.  An input text is a sequence of one-character       *)
(* strings; every production is an operator P(s, i) that runs on text s    *)
(* from cursor i (1-based, Len(s)+1 is end of input) and returns a parse   *)
(* result.  A result carries combine's four outcomes: it succeeded or      *)
(* failed, and it did or did not commit (consume input) on the way.        *)
(***************************************************************************)
EXTENDS Integers, Sequences, FiniteSets, TLC

NL == "\n"

\* The backtick character.  A string literal cannot hold a backtick, so the
\* model writes it as this stand-in, which no other character uses.
BT == "~"

\* Every character the model's inputs are written in.
Alphabet ==
  {"=", " ", NL, "*", "_", BT, "#", "+", ".", ",", "[", "]", "x", "<", "a", "b"}

\* std::char::is_whitespace, within Alphabet.
Whitespace == {" ", NL}

----------------------------------------------------------------------------
(* combine's parse results *)

NoValue == [kind |-> "NoValue"]

CommitOk(v, p) == [st |-> "CommitOk", val |-> v, pos |-> p]
PeekOk(v, p) == [st |-> "PeekOk", val |-> v, pos |-> p]
CommitErr(p) == [st |-> "CommitErr", val |-> NoValue, pos |-> p]
PeekErr(p) == [st |-> "PeekErr", val |-> NoValue, pos |-> p]

IsOk(r) == r.st \in {"CommitOk", "PeekOk"}
Committed(r) == r.st \in {"CommitOk", "CommitErr"}

\* A success or a failure that has committed exactly when c holds.
OkIf(c, v, p) == IF c THEN CommitOk(v, p) ELSE PeekOk(v, p)
ErrIf(c, p) == IF c THEN CommitErr(p) ELSE PeekErr(p)

\* attempt that leaves a failure as it is.
AttemptKeeps(r, i) == r

\* attempt(p): a failure after consuming input becomes a failure that consumed
\* nothing (the cursor is restored to i).
Attempt(r, i) == IF r.st = "CommitErr" THEN PeekErr(i) ELSE r

\* a.or(b) and choice((a, b, ...)): b is tried only when a failed without
\* consuming input; a committed failure of a is the failure of the choice.
Or(r1, r2) == IF r1.st = "PeekErr" THEN r2 ELSE r1

\* The cursors of a text: before each character and after the last.
Cursors(s) == 1..(Len(s) + 1)

\* a.and(b), the sequence (a, b): b runs from the cursor a has left, the
\* output is the pair of both outputs, and the sequence has committed when
\* either part has.  a is a's result, B[p] is b's result from cursor p.
And(a, B) ==
  IF ~IsOk(a) THEN a
  ELSE LET b == B[a.pos]
       IN IF IsOk(b) THEN OkIf(Committed(a) \/ Committed(b), <<a.val, b.val>>, b.pos)
          ELSE ErrIf(Committed(a) \/ Committed(b), b.pos)

\* p.map(f) from p's result r: v is f's value on the output of a success.
Map(r, v) == IF IsOk(r) THEN [r EXCEPT !.val = v] ELSE r

\* many(p) from cursor i, given p's result r there and the result Rest[q] of
\* many(p) from cursor q: it ends where p fails without consuming input, and
\* fails where p fails after consuming input.
Many(r, i, Rest) ==
  IF r.st = "PeekErr" THEN PeekOk(<<>>, i)
  ELSE IF r.st = "CommitErr" THEN r
  ELSE LET rest == Rest[r.pos]
       IN IF IsOk(rest) THEN CommitOk(<<r.val>> \o rest.val, rest.pos) ELSE rest

\* many1(p): the first p must succeed, the rest is many(p).
Many1(r, Rest) ==
  IF ~IsOk(r) THEN r
  ELSE LET rest == Rest[r.pos]
       IN IF IsOk(rest)
          THEN OkIf(Committed(r) \/ Committed(rest), <<r.val>> \o rest.val, rest.pos)
          ELSE ErrIf(Committed(r) \/ Committed(rest), rest.pos)

----------------------------------------------------------------------------
(* combine's primitive parsers *)

\* satisfy(|c| c \in S), and token(c) as Satisfy(s, i, {c}).
Satisfy(s, i, S) ==
  IF i <= Len(s) /\ s[i] \in S THEN CommitOk(s[i], i + 1) ELSE PeekErr(i)

\* The cursor after the maximal run of characters of S that starts at i.
RECURSIVE RunEnd(_, _, _)
RunEnd(s, i, S) ==
  IF i <= Len(s) /\ s[i] \in S THEN RunEnd(s, i + 1, S) ELSE i

\* A parser's result when it takes the text from cursor i up to cursor e, at
\* least min characters of it: many1 (min = 1) and skip_many (min = 0) of
\* satisfy.
Taken(s, i, e, min) ==
  IF e - i < min THEN ErrIf(e > i, e) ELSE OkIf(e > i, SubSeq(s, i, e - 1), e)

\* many1(satisfy(|c| c \in S)): the maximal run, which must not be empty.
Many1Of(s, i, S) == Taken(s, i, RunEnd(s, i, S), 1)

\* skip_many(satisfy(|c| c \in S)): the maximal run, possibly empty.
SkipManyOf(s, i, S) == Taken(s, i, RunEnd(s, i, S), 0)

\* How many leading characters of str the text matches at i.
RECURSIVE MatchLen(_, _, _, _)
MatchLen(s, i, str, k) ==
  IF k < Len(str) /\ i + k <= Len(s) /\ s[i + k] = str[k + 1]
  THEN MatchLen(s, i, str, k + 1) ELSE k

\* A parser's result when it has matched k characters at i and needed n.
Matched(s, i, k, n) ==
  IF k = n THEN OkIf(k > 0, SubSeq(s, i, i + k - 1), i + k) ELSE ErrIf(k > 0, i + k)

\* string(str): commits as soon as one character has matched.
StringP(s, i, str) == Matched(s, i, MatchLen(s, i, str, 0), Len(str))

\* The smaller of two numbers.
Min(a, b) == IF a < b THEN a ELSE b

\* count_min_max(min, max, newline()): at most max newlines, and a failure
\* when there are fewer than min.
CountMinMaxNewline(s, i, min, max) ==
  Taken(s, i, Min(RunEnd(s, i, {NL}), i + max), min)

\* not_followed_by(p) from p's result r at cursor i: it succeeds, consuming
\* nothing, iff p fails.
NotFollowedBy(r, i) == IF IsOk(r) THEN PeekErr(i) ELSE PeekOk(NoValue, i)

\* The output of between's sequence ((open, p), close): p's.
Inner(r) == Map(r, r.val[1][2])

\* between(token(open), token(close), p), P[q] being p's result from cursor q.
Between(s, i, open, close, P) ==
  Inner(And(And(Satisfy(s, i, {open}), P),
            [q \in Cursors(s) |-> Satisfy(s, q, {close})]))

----------------------------------------------------------------------------
(* The inline grammar *)

Value(t) == [kind |-> "Value", text |-> t]
SoftBreak == [kind |-> "SoftBreak"]
HardBreak == [kind |-> "HardBreak"]
Boxed(k, child) == [kind |-> k, children |-> child]

ignore_tokens == {NL, "*", "_", BT, "#"}

\* .map(|s| Inline::Value(s))
ValueOf(r) == Map(r, Value(r.val))

\* value that takes one ordinary character, not the run.
value_one_char(s, i) ==
  ValueOf(Taken(s, i, Min(RunEnd(s, i, Alphabet \ ignore_tokens), i + 1), 1))

value(s, i) == ValueOf(Many1Of(s, i, Alphabet \ ignore_tokens))

\* line_break without not_followed_by(newline()): any newline is a soft break.
line_break_any_newline(s, i) ==
  Or(Map(Satisfy(s, i, {NL}), SoftBreak),
     Map(And(Satisfy(s, i, Whitespace),
             [q \in Cursors(s) |-> StringP(s, q, <<"+", NL>>)]),
         HardBreak))

line_break(s, i) ==
  Or(Map(And(Satisfy(s, i, {NL}),
             [q \in Cursors(s) |-> NotFollowedBy(Satisfy(s, q, {NL}), q)]),
         SoftBreak),
     Map(And(Satisfy(s, i, Whitespace),
             [q \in Cursors(s) |-> StringP(s, q, <<"+", NL>>)]),
         HardBreak))

RECURSIVE inline(_, _)

\* .map(|(_, children)| ..): the node of kind k around the span's inline.
BoxedOf(r, k) == Map(r, Boxed(k, r.val[2]))

\* skip_many(token(' ')).and(between(token(symbol), token(symbol), inline()))
\* mapped to the node of kind k.
Span(s, i, symbol, k) ==
  BoxedOf(And(SkipManyOf(s, i, {" "}),
              [p \in Cursors(s) |->
                 Between(s, p, symbol, symbol, [q \in Cursors(s) |-> inline(s, q)])]),
          k)

bold(s, i) == Span(s, i, "*", "Bold")

monospace(s, i) == Span(s, i, BT, "Monospace")

\* italic with bold's delimiter.
italic_star(s, i) == Span(s, i, "*", "Italic")

italic(s, i) == Span(s, i, "_", "Italic")

marker(s, i) == Span(s, i, "#", "Marker")

\* (token(symbol), token(symbol), token(symbol))
Token3(s, i, symbol) ==
  And(And(Satisfy(s, i, {symbol}), [p \in Cursors(s) |-> Satisfy(s, p, {symbol})]),
      [p \in Cursors(s) |-> Satisfy(s, p, {symbol})])

\* .map(|(_, _, _, children, _, _, _)| ..)
InlineCodeOf(r) == Map(r, Boxed("InlineCode", r.val[1][2]))

inline_code(s, i) ==
  InlineCodeOf(And(And(Token3(s, i, BT), [p \in Cursors(s) |-> inline(s, p)]),
                   [p \in Cursors(s) |-> Token3(s, p, BT)]))

\* .map(|s: char| Inline::Value(s.to_string()))
CharValueOf(r) == Map(r, Value(<<r.val>>))

\* Fallback that takes ordinary characters only.
FallbackOrdinary(s, i) == CharValueOf(Satisfy(s, i, Alphabet \ ignore_tokens))

\* The last alternative of both inline grammars: any one character but a newline.
Fallback(s, i) == CharValueOf(Satisfy(s, i, Alphabet \ {NL}))

\* inline_ without attempt around the choice: a span that fails after
\* consuming input fails the inline.
inline_no_attempt(s, i) ==
  Or(Or(value(s, i),
     Or(bold(s, i),
     Or(italic(s, i),
     Or(Or(Attempt(inline_code(s, i), i), monospace(s, i)),
     Or(marker(s, i),
        line_break(s, i)))))),
     Fallback(s, i))

\* inline_ with monospace tried before inline_code.
inline_monospace_first(s, i) ==
  Or(Attempt(Or(value(s, i),
             Or(bold(s, i),
             Or(italic(s, i),
             Or(Or(monospace(s, i), Attempt(inline_code(s, i), i)),
             Or(marker(s, i),
                line_break(s, i)))))), i),
     Fallback(s, i))

inline_(s, i) ==
  Or(Attempt(Or(value(s, i),
             Or(bold(s, i),
             Or(italic(s, i),
             Or(Or(Attempt(inline_code(s, i), i), monospace(s, i)),
             Or(marker(s, i),
                line_break(s, i)))))), i),
     Fallback(s, i))

inline(s, i) == inline_(s, i)

list_item_inline_(s, i) ==
  Or(Attempt(Or(value(s, i), Or(bold(s, i), Or(italic(s, i), monospace(s, i)))), i),
     Fallback(s, i))

\* An inline of the full grammar, or of the list items' restricted one.
InlineOf(s, i, restricted) ==
  IF restricted THEN list_item_inline_(s, i) ELSE inline(s, i)

\* many(attempt(p)) for p one of the two inline grammars.
RECURSIVE ManyAttempt(_, _, _)
ManyAttempt(s, i, restricted) ==
  Many(Attempt(InlineOf(s, i, restricted), i), i,
       [q \in Cursors(s) |-> ManyAttempt(s, q, restricted)])

\* many1(attempt(p)) for p one of the two inline grammars.
Many1Attempt(s, i, restricted) ==
  Many1(Attempt(InlineOf(s, i, restricted), i),
        [q \in Cursors(s) |-> ManyAttempt(s, q, restricted)])

----------------------------------------------------------------------------
(* The block grammar *)

Paragraph(c) == [kind |-> "Paragraph", children |-> c]
Heading(l, c) == [kind |-> "Heading", level |-> l, children |-> c, id |-> "None"]
HorizontalRuledLine == [kind |-> "HorizontalRuledLine"]
UnorderdList(c) == [kind |-> "UnorderdList", children |-> c]
OrderdList(c) == [kind |-> "OrderdList", children |-> c]
BlankBlock == [kind |-> "BlankBlock"]
Normal(c, l) == [kind |-> "Normal", children |-> c, level |-> l]
Check(c, l, k) == [kind |-> "Check", children |-> c, level |-> l, checked |-> k]

\* HeadingLevelOf with the levels one run length late.
HeadingLevelOfShifted(n) ==
  CASE n = 1 -> "Title"
    [] n = 2 -> "Title"
    [] n = 3 -> "Level1"
    [] n = 4 -> "Level2"
    [] n = 5 -> "Level3"

\* The heading level of a run of n '=' characters, 1 <= n <= 5.
HeadingLevelOf(n) ==
  CASE n = 1 -> "Title"
    [] n = 2 -> "Level1"
    [] n = 3 -> "Level2"
    [] n = 4 -> "Level3"
    [] n = 5 -> "Level4"

\* .map(|((heading, spaces), children)| ..): the block of a heading's '=' run,
\* its spaces and its one inline.
HeadingOf(r) ==
  Map(r, IF Len(r.val[1][1]) > 5
         THEN Paragraph(<<Value(r.val[1][1] \o r.val[1][2]), r.val[2]>>)
         ELSE Heading(HeadingLevelOf(Len(r.val[1][1])), <<r.val[2]>>))

heading_block(s, i) ==
  HeadingOf(And(And(Many1Of(s, i, {"="}), [p \in Cursors(s) |-> Many1Of(s, p, {" "})]),
                [p \in Cursors(s) |-> inline(s, p)]))

\* .map(|children| Block::Paragraph { children })
ParagraphOf(r) == Map(r, Paragraph(r.val))

paragraph_block(s, i) == ParagraphOf(Many1Attempt(s, i, FALSE))

blank_block(s, i) == Map(CountMinMaxNewline(s, i, 2, 2), BlankBlock)

horizontal_ruled_line_block(s, i) ==
  Map(StringP(s, i, <<"<", "<", "<">>), HorizontalRuledLine)

\* .map(|((list_tokens, _), inline)| ListItem::Normal { .. })
NormalOf(r) == Map(r, Normal(r.val[2], Len(r.val[1][1])))

normal_list_item(s, i, list_char) ==
  NormalOf(And(And(Many1Of(s, i, {list_char}),
                   [p \in Cursors(s) |-> SkipManyOf(s, p, Whitespace)]),
               [p \in Cursors(s) |-> Many1Attempt(s, p, TRUE)]))

\* CheckedOf that takes only 'x' as checked.
CheckedOnlyX(check_box_char) == check_box_char = "x"

\* The check box's state from the character between the brackets.
CheckedOf(check_box_char) == check_box_char # " "

\* .map(|((((list_tokens, _), check_box_char), _), inline)| ListItem::Check { .. })
CheckOf(r) ==
  Map(r, Check(r.val[2], Len(r.val[1][1][1][1]), CheckedOf(r.val[1][1][2])))

checked_list_item(s, i, list_char) ==
  CheckOf(And(And(And(And(Many1Of(s, i, {list_char}),
                          [p \in Cursors(s) |-> SkipManyOf(s, p, Whitespace)]),
                      [p \in Cursors(s) |->
                         Between(s, p, "[", "]",
                                 [q \in Cursors(s) |-> Satisfy(s, q, {"*", "x", " "})])]),
                  [p \in Cursors(s) |-> SkipManyOf(s, p, Whitespace)]),
              [p \in Cursors(s) |-> Many1Attempt(s, p, TRUE)]))

list_item(s, i, list_char) ==
  Or(Attempt(checked_list_item(s, i, list_char), i), normal_list_item(s, i, list_char))

\* ListEntry that leaves the newline after the item unconsumed.
ListEntryNoNewline(s, i, list_char) == list_item(s, i, list_char)

\* .map(|(list_item, _)| list_item)
ItemOf(r) == Map(r, r.val[1])

\* list_item(c).and(count_min_max(0, 1, newline())).map(|(list_item, _)| list_item)
ListEntry(s, i, list_char) ==
  ItemOf(And(list_item(s, i, list_char),
             [p \in Cursors(s) |-> CountMinMaxNewline(s, p, 0, 1)]))

\* many(p) for p a list's entry.
RECURSIVE ManyEntries(_, _, _)
ManyEntries(s, i, list_char) ==
  Many(ListEntry(s, i, list_char), i,
       [q \in Cursors(s) |-> ManyEntries(s, q, list_char)])

\* many1(p) for p a list's entry.
Many1Entries(s, i, list_char) ==
  Many1(ListEntry(s, i, list_char),
        [q \in Cursors(s) |-> ManyEntries(s, q, list_char)])

\* .map(|items| Block::UnorderdList { children: items })
UnorderdListOf(r) == Map(r, UnorderdList(r.val))

unordered_list_block(s, i) == UnorderdListOf(Many1Entries(s, i, "*"))

\* .map(|items| Block::OrderdList { children: items })
OrderdListOf(r) == Map(r, OrderdList(r.val))

ordered_list_block(s, i) == OrderdListOf(Many1Entries(s, i, "."))

\* block with the paragraph production tried before the list productions.
block_paragraph_first(s, i) ==
  Or(heading_block(s, i),
  Or(horizontal_ruled_line_block(s, i),
  Or(paragraph_block(s, i),
  Or(ordered_list_block(s, i),
  Or(unordered_list_block(s, i),
     blank_block(s, i))))))

block(s, i) ==
  Or(heading_block(s, i),
  Or(horizontal_ruled_line_block(s, i),
  Or(ordered_list_block(s, i),
  Or(unordered_list_block(s, i),
  Or(paragraph_block(s, i),
     blank_block(s, i))))))

\* many(block())
RECURSIVE document(_, _)
document(s, i) == Many(block(s, i), i, [q \in Cursors(s) |-> document(s, q)])

\* TrimStart that strips spaces only.
TrimStartSpaces(s) == SubSeq(s, RunEnd(s, 1, {" "}), Len(s))

\* s.trim_start_matches(&['\n', ' ']): s from the first character that is
\* neither a newline nor a space.
TrimStart(s) == SubSeq(s, RunEnd(s, 1, {NL, " "}), Len(s))

\* parse: Ok(tokens) or the parser's error.  The result keeps the cursor
\* where the document stopped, in the trimmed text, which the code drops.
parse(s) == document(TrimStart(s), 1)

----------------------------------------------------------------------------
(* The attribute grammar *)

Position(attrs) == [kind |-> "Position", attributes |-> attrs]

\* many1(satisfy(|c| c != ']' && c != '\n' && c != ','))
attribute(s, i) == Many1Of(s, i, Alphabet \ {"]", NL, ","})

\* .map(|(_, attrs, _)| Attributes::Position(vec![attrs]))
SingleOf(r) == Map(r, Position(<<r.val[1][2]>>))

\* (token('['), attribute(), token(']'))
single_attribute(s, i) ==
  SingleOf(And(And(Satisfy(s, i, {"["}), [p \in Cursors(s) |-> attribute(s, p)]),
               [p \in Cursors(s) |-> Satisfy(s, p, {"]"})]))

\* (attribute(), token(','))
attribute_with_delimiter(s, i) ==
  And(attribute(s, i), [p \in Cursors(s) |-> Satisfy(s, p, {","})])

\* many(attempt(attribute_with_delimiter()))
RECURSIVE ManyDelimited(_, _)
ManyDelimited(s, i) ==
  Many(Attempt(attribute_with_delimiter(s, i), i), i,
       [q \in Cursors(s) |-> ManyDelimited(s, q)])

\* The attributes of the delimited pairs attrs, in order, and then attr.
Pushed(attrs, attr) == [k \in 1..Len(attrs) |-> attrs[k][1]] \o <<attr>>

\* .map(|(_, attrs, attr, _)| ..)
MultiOf(r) == Map(r, Position(Pushed(r.val[1][1][2], r.val[1][2])))

\* (token('['), many(attempt(attribute_with_delimiter())), attribute(), token(']'))
multi_attribute(s, i) ==
  MultiOf(And(And(And(Satisfy(s, i, {"["}),
                      [p \in Cursors(s) |-> ManyDelimited(s, p)]),
                  [p \in Cursors(s) |-> attribute(s, p)]),
              [p \in Cursors(s) |-> Satisfy(s, p, {"]"})]))

position_attributes(s, i) ==
  Or(Attempt(multi_attribute(s, i), i), single_attribute(s, i))

----------------------------------------------------------------------------
(* The input texts *)

MaxLen == 3
MaxRun == 2
MaxEq == 7
MaxSp == 2
MaxItems == 2
MaxLevel == 2
MaxTokens == 2

Rep(c, n) == [k \in 1..n |-> c]
Strings(S, n) == UNION {[1..k -> S] : k \in 0..n}

Letters == {"a", "b"}
Delimiters == {"*", "_", "#", BT}
Markers == {"*", "."}

\* Non-empty runs of letters.
TextRuns == Strings(Letters, MaxRun) \ {<<>>}

\* Non-empty runs of ordinary characters: those value() takes.
OrdinaryRuns == Strings(Alphabet \ {NL, "*", "_", BT, "#"}, MaxRun) \ {<<>>}

\* Every text of at most MaxLen characters.
ShortInputs == Strings(Alphabet, MaxLen)

\* A run of '=', a run of spaces, a run of ordinary characters.
HeadingTexts == {t \in OrdinaryRuns : t[1] # " "}
HeadingInputs ==
  {Rep("=", L) \o Rep(" ", k) \o t : L \in 1..MaxEq, k \in 1..MaxSp, t \in HeadingTexts}

\* Two text runs with a line end between them.
Separators == {<<NL>>, <<NL, NL>>, <<" ", "+", NL>>}
ParagraphInputs == {a \o sep \o b : a \in TextRuns, sep \in Separators, b \in TextRuns}

\* A text run in two nested spans, in one span, and in a span left open.
SpanInputs ==
  {<<d1, d2>> \o t \o <<d2, d1>> : d1 \in Delimiters, d2 \in Delimiters, t \in OrdinaryRuns}
  \cup {<<d>> \o t \o <<d>> : d \in Delimiters, t \in OrdinaryRuns}
  \cup {<<d>> \o t : d \in Delimiters, t \in OrdinaryRuns}

\* One list item's line: a marker run, a space, an optional check box, a text.
ItemTexts == {<<"a">>, <<"b">>, <<"a", "b">>}
ItemLines(m) ==
  {Rep(m, l) \o <<" ">> \o t : l \in 1..MaxLevel, t \in ItemTexts}

\* The lines of n items, each line but the last followed by one newline.
RECURSIVE Lines(_, _)
Lines(m, n) ==
  IF n = 1 THEN ItemLines(m)
  ELSE {l \o <<NL>> \o rest : l \in ItemLines(m), rest \in Lines(m, n - 1)}

ListInputs == UNION {Lines(m, n) : m \in Markers, n \in 1..MaxItems}

\* One item with something in brackets after the marker run.
BoxContents == {<<c>> : c \in Alphabet} \cup {<<>>, <<"x", "x">>}
CheckInputs ==
  {Rep(m, l) \o sp \o <<"[">> \o c \o <<"]">> \o sp2 \o t :
     m \in Markers, l \in 1..MaxLevel, sp \in {<<>>, <<" ">>}, c \in BoxContents,
     sp2 \in {<<>>, <<" ">>}, t \in {<<>>, <<"a">>, <<"a", "b">>}}

\* One item whose content is a span, or that is followed by a second line.
ItemSpanInputs ==
  {<<m>> \o sp \o <<d>> \o body \o <<d>> :
     m \in Markers, sp \in {<<>>, <<" ">>}, d \in Delimiters,
     body \in {<<NL>>, <<"a">>, <<BT, BT, BT, "a", BT, BT, BT>>}}
  \cup {<<m, " ">> \o t \o <<NL>> \o u : m \in Markers, t \in TextRuns, u \in TextRuns}

\* A run of ordinary characters between three backticks on each side.
CodeInputs == {<<BT, BT, BT>> \o t \o <<BT, BT, BT>> : t \in OrdinaryRuns}

\* A letter run between two '*', at the start of the text, after leading
\* white space, and after a line and after a blank line of a paragraph.
StarInputs ==
  {pre \o <<"*">> \o t \o <<"*">> :
     pre \in {<<>>, <<" ">>, <<NL>>, <<"a", NL>>, <<"a", NL, NL>>}, t \in TextRuns}

\* A bracketed list of comma-separated tokens.
RECURSIVE Joined(_)
Joined(ts) ==
  IF Len(ts) = 1 THEN ts[1] ELSE ts[1] \o <<",">> \o Joined(Tail(ts))

TokenLists == UNION {[1..n -> ItemTexts] : n \in 1..MaxTokens}
AttributeInputs == {<<"[">> \o Joined(ts) \o <<"]">> : ts \in TokenLists}

Inputs ==
  ShortInputs \cup HeadingInputs \cup ParagraphInputs \cup SpanInputs
  \cup ListInputs \cup CheckInputs \cup ItemSpanInputs \cup CodeInputs
  \cup AttributeInputs \cup StarInputs

----------------------------------------------------------------------------
(* Applying parse and the productions to a text *)

\* src: the text; pc: "start", then "applied" once an operation has run on
\* src; prod and arg: the operation that ran and its list_char ("" when it
\* takes none); out: the result it returned.
VARIABLES src, pc, prod, arg, out

vars == <<src, pc, prod, arg, out>>

Init ==
  /\ src \in Inputs
  /\ pc = "start"
  /\ prod = "none"
  /\ arg = ""
  /\ out = PeekErr(1)

Apply(p, a, r) ==
  /\ pc = "start"
  /\ pc' = "applied"
  /\ prod' = p
  /\ arg' = a
  /\ out' = r
  /\ UNCHANGED src

Parse == Apply("parse", "", parse(src))
ApplyBlock == Apply("block", "", block(src, 1))
ApplyInline == Apply("inline", "", inline(src, 1))
ApplyBold == Apply("bold", "", bold(src, 1))
ApplyItalic == Apply("italic", "", italic(src, 1))
ApplyMonospace == Apply("monospace", "", monospace(src, 1))
ApplyMarker == Apply("marker", "", marker(src, 1))
ApplyInlineCode == Apply("inline_code", "", inline_code(src, 1))
ApplyHeading == Apply("heading_block", "", heading_block(src, 1))
ApplyParagraph == Apply("paragraph_block", "", paragraph_block(src, 1))
ApplyLineBreak == Apply("line_break", "", line_break(src, 1))
ApplyBlank == Apply("blank_block", "", blank_block(src, 1))
ApplyListItem == \E c \in Markers : Apply("list_item", c, list_item(src, 1, c))
ApplyUnorderedList == Apply("unordered_list_block", "", unordered_list_block(src, 1))
ApplyOrderedList == Apply("ordered_list_block", "", ordered_list_block(src, 1))
ApplyPositionAttributes ==
  Apply("position_attributes", "", position_attributes(src, 1))

Next ==
  \/ Parse
  \/ ApplyBlock
  \/ ApplyInline
  \/ ApplyBold
  \/ ApplyItalic
  \/ ApplyMonospace
  \/ ApplyMarker
  \/ ApplyInlineCode
  \/ ApplyHeading
  \/ ApplyParagraph
  \/ ApplyLineBreak
  \/ ApplyBlank
  \/ ApplyListItem
  \/ ApplyUnorderedList
  \/ ApplyOrderedList
  \/ ApplyPositionAttributes

Spec == Init /\ [][Next]_vars
----------------------------------------------------------------------------
(* The claims *)

\* Operation p has run on src.
Applied(p) == pc = "applied" /\ prod = p

\* The result of an operation that consumed all of text s and returned v.
Whole(v, s) == CommitOk(v, Len(s) + 1)

\* C1: parse is total: on every text it returns a Document and never an
\* error, and a text that is not empty once its leading spaces and newlines
\* are stripped yields at least one block.
C1_ParseTotal ==
  Applied("parse") =>
    /\ IsOk(out)
    /\ (TrimStart(src) # <<>> => Len(out.val) >= 1)

\* C2: on L '=' characters, one or more spaces and a text run t, the heading
\* production returns Heading{level = map(L), children = [Text(t)], id =
\* None} for 1 <= L <= 5 and Paragraph{[Text(the '=' run and the spaces),
\* Text(t)]} for L > 5.
C2_LevelNames == <<"Title", "Level1", "Level2", "Level3", "Level4">>

C2_Heading ==
  Applied("heading_block") =>
    \A L \in 1..MaxEq, k \in 1..MaxSp :
      LET t == SubSeq(src, L + k + 1, Len(src))
      IN (t \in HeadingTexts /\ src = Rep("=", L) \o Rep(" ", k) \o t) =>
           out = Whole(IF L <= 5
                       THEN [kind |-> "Heading", level |-> C2_LevelNames[L],
                             children |-> <<Value(t)>>, id |-> "None"]
                       ELSE [kind |-> "Paragraph",
                             children |-> <<Value(Rep("=", L) \o Rep(" ", k)), Value(t)>>],
                       src)

\* The heading production has run on six '=', a space and a text run, and on
\* a five-'=' heading.
C2_Witness ==
  /\ Applied("heading_block")
  /\ src = <<"=", "=", "=", "=", "=", "=", " ", "a", "b">>
  /\ out.val.kind = "Paragraph"

\* C3: for letter runs a and b, parse of a, one newline, b is the single
\* block Paragraph{[Text(a), SoftBreak, Text(b)]}; parse of a, two newlines,
\* b is Paragraph{[Text(a)]}, BlankSeparator, Paragraph{[Text(b)]}; and the
\* line-break production fails on a newline that a second newline follows.
C3_LineBreak ==
  /\ (Applied("parse") /\ src \in ParagraphInputs) =>
       \A a \in TextRuns, b \in TextRuns :
         /\ src = a \o <<NL>> \o b =>
              out = Whole(<<Paragraph(<<Value(a), SoftBreak, Value(b)>>)>>, src)
         /\ src = a \o <<NL, NL>> \o b =>
              out = Whole(<<Paragraph(<<Value(a)>>), BlankBlock,
                            Paragraph(<<Value(b)>>)>>, src)
  /\ (Applied("line_break") /\ Len(src) >= 2 /\ src[1] = NL /\ src[2] = NL) =>
       ~IsOk(out)

\* parse has run on a, two newlines, b and returned three blocks.
C3_Witness ==
  /\ Applied("parse")
  /\ src = <<"a", NL, NL, "b">>
  /\ IsOk(out)
  /\ Len(out.val) = 3

\* C4: for letter runs a and b, parse of a, a space, '+', a newline, b is
\* Paragraph{[Text(a), HardBreak, Text(b)]}.
C4_HardBreak ==
  (Applied("parse") /\ src \in ParagraphInputs) =>
    \A a \in TextRuns, b \in TextRuns :
      src = a \o <<" ", "+", NL>> \o b =>
        /\ IsOk(out)
        /\ out.val = <<Paragraph(<<Value(a), HardBreak, Value(b)>>)>>

\* C5 as stated: parse of exactly two newlines is a Document of exactly one
\* block, BlankSeparator.
C5_ParseTwoNewlines ==
  (Applied("parse") /\ src = <<NL, NL>>) =>
    /\ IsOk(out)
    /\ out.val = <<BlankBlock>>

\* C5 as amended: parse strips leading newlines, so on exactly two newlines
\* it returns the empty Document; the block production, which strips
\* nothing, returns exactly BlankSeparator there and consumes both.
C5_Amended ==
  /\ (Applied("parse") /\ src = <<NL, NL>>) => out = PeekOk(<<>>, 1)
  /\ (Applied("block") /\ src = <<NL, NL>>) => out = Whole(BlankBlock, src)

\* parse has run on the two newlines and returned no block.
C5_Witness ==
  /\ Applied("parse")
  /\ src = <<NL, NL>>
  /\ IsOk(out)
  /\ out.val = <<>>

C6_SpanOf == [d \in Delimiters |->
  CASE d = "*" -> "bold" [] d = "_" -> "italic" [] d = "#" -> "marker" [] d = BT -> "monospace"]

RECURSIVE HoldsKind(_, _)
HoldsKind(n, K) ==
  \/ n.kind \in K
  \/ n.kind \in {"Bold", "Italic", "Monospace", "Marker", "InlineCode"}
       /\ HoldsKind(n.children, K)

\* C7: a list item is confined to one physical line: the list-item
\* production never consumes a newline, so on a marker, a space, a text run
\* t, a newline and more text the item holds only [Text(t)]; and no ListItem
\* holds a SoftBreak, HardBreak or InlineCode node at any depth.
C7_OneLine ==
  (Applied("list_item") /\ IsOk(out)) =>
    /\ \A k \in 1..(out.pos - 1) : src[k] # NL
    /\ \A k \in 1..Len(out.val.children) :
         ~HoldsKind(out.val.children[k], {"SoftBreak", "HardBreak", "InlineCode"})
    /\ \A t \in TextRuns, u \in TextRuns :
         src = <<arg, " ">> \o t \o <<NL>> \o u =>
           out.val = [kind |-> "Normal", children |-> <<Value(t)>>, level |-> 1]

\* C8: formatting spans nest: for distinct delimiters d1, d2 among '*', '_',
\* '#' and a non-empty run t of ordinary characters, inline on d1 d2 t d2 d1
\* returns the d1 node whose sole child is the d2 node whose sole child is
\* Text(t); so on *_a_* it returns Bold{Italic{Text("a")}}.
C8_KindOf == [d \in {"*", "_", "#"} |->
  CASE d = "*" -> "Bold" [] d = "_" -> "Italic" [] d = "#" -> "Marker"]

C8_Nesting ==
  Applied("inline") =>
    \A d1 \in {"*", "_", "#"}, d2 \in {"*", "_", "#"} :
      LET t == SubSeq(src, 3, Len(src) - 2)
      IN (d1 # d2 /\ t \in OrdinaryRuns /\ src = <<d1, d2>> \o t \o <<d2, d1>>) =>
           out = Whole([kind |-> C8_KindOf[d1],
                        children |-> [kind |-> C8_KindOf[d2],
                                      children |-> Value(t)]], src)

\* inline has run on *_a_* and returned Bold{Italic{Text("a")}}.
C8_Witness ==
  /\ Applied("inline")
  /\ src = <<"*", "_", "a", "_", "*">>
  /\ out.val = [kind |-> "Bold",
                children |-> [kind |-> "Italic", children |-> Value(<<"a">>)]]

\* The text of n item lines of marker m, levels lv and contents tx, one
\* newline between consecutive lines.
RECURSIVE C9_Text(_, _, _, _)
C9_Text(m, n, lv, tx) ==
  IF n = 0 THEN <<>>
  ELSE C9_Text(m, n - 1, lv, tx) \o (IF n = 1 THEN <<>> ELSE <<NL>>)
       \o Rep(m, lv[n]) \o <<" ">> \o tx[n]

C9_ListKind == [m \in Markers |-> IF m = "*" THEN "UnorderdList" ELSE "OrderdList"]
C9_ListProd == [m \in Markers |->
  IF m = "*" THEN "unordered_list_block" ELSE "ordered_list_block"]

C11_CodeBeforeMonospace ==
  pc = "applied" =>
    /\ LET t == SubSeq(src, 4, Len(src) - 3)
       IN (prod = "inline" /\ t \in OrdinaryRuns
             /\ src = <<BT, BT, BT>> \o t \o <<BT, BT, BT>>) =>
            out = Whole(Boxed("InlineCode", Value(t)), src)
    /\ LET t == SubSeq(src, 2, Len(src) - 1)
       IN (t \in OrdinaryRuns /\ src = <<BT>> \o t \o <<BT>>) =>
            /\ prod = "inline" => out = Whole(Boxed("Monospace", Value(t)), src)
            /\ prod = "inline_code" => ~IsOk(out)

\* inline has run on three backticks, a run, three backticks and returned
\* the InlineCode node of the run.
C11_Witness ==
  /\ Applied("inline")
  /\ src = <<BT, BT, BT, "a", "b", BT, BT, BT>>
  /\ out.val = Boxed("InlineCode", Value(<<"a", "b">>))

\* C12: the positional attribute production, on a bracketed list of one or
\* more comma-separated tokens with the closing ']' directly after the last,
\* returns Positional with exactly those tokens in source order; and no
\* positional token it returns contains '=', ',', ']' or a newline.
C12_Positional ==
  Applied("position_attributes") =>
    /\ src \in AttributeInputs =>
         \A ts \in TokenLists :
           src = <<"[">> \o Joined(ts) \o <<"]">> => out = Whole(Position(ts), src)
    /\ IsOk(out) =>
         \A k \in 1..Len(out.val.attributes) :
           \A j \in 1..Len(out.val.attributes[k]) :
             out.val.attributes[k][j] \notin {"=", ",", "]", NL}

\* C13: whenever parse returns a Document, the block production was applied
\* until the cursor reached end of input: the blocks account for the entire
\* trimmed input and no unconsumed suffix is dropped from a success.
C13_ConsumesAll ==
  (Applied("parse") /\ IsOk(out)) => out.pos = Len(TrimStart(src)) + 1

\* parse has run on two lines of text and returned a Document that ends at
\* the end of the input.
C13_Witness ==
  /\ Applied("parse")
  /\ src = <<"a", "b", NL, "b", "a">>
  /\ IsOk(out)
  /\ out.pos = 6

\* The result at the start of src of the span alternatives of inline_ that
\* open with delimiter d: d's span, and for a backtick inline_code before it.
C14_SpanOn(d) ==
  CASE d = "*" -> bold(src, 1)
    [] d = "_" -> italic(src, 1)
    [] d = "#" -> marker(src, 1)
    [] d = BT -> Or(Attempt(inline_code(src, 1), 1), monospace(src, 1))

\* C14: on every non-empty text whose first character is not a newline,
\* inline succeeds and consumes at least one character; when the span
\* alternative of the first character fails after consuming input, inline
\* returns that character as a one-character Text from the start; and inline
\* fails only at end of input or at a newline that a second newline
\* follows, without consuming input.
C14_InlineTotal ==
  Applied("inline") =>
    /\ (src # <<>> /\ src[1] # NL) => (IsOk(out) /\ out.pos >= 2)
    /\ \A d \in Delimiters :
         (src # <<>> /\ src[1] = d /\ C14_SpanOn(d).st = "CommitErr") =>
           out = CommitOk(Value(<<d>>), 2)
    /\ ~IsOk(out) =>
         /\ out = PeekErr(1)
         /\ \/ src = <<>>
            \/ Len(src) >= 2 /\ src[1] = NL /\ src[2] = NL

\* inline has run on a marker span left open and returned the '#' as text.
C14_Witness ==
  /\ Applied("inline")
  /\ src = <<"#", "a">>
  /\ marker(src, 1).st = "CommitErr"
  /\ out = CommitOk(Value(<<"#">>), 2)

\* The ordinary characters.
C15_Ordinary == Alphabet \ ignore_tokens

\* The maximal runs of ordinary characters of text s, in order.
RECURSIVE C15_Runs(_)
C15_Runs(s) ==
  IF s = <<>> THEN <<>>
  ELSE IF s[1] \notin C15_Ordinary THEN C15_Runs(Tail(s))
  ELSE <<SubSeq(s, 1, RunEnd(s, 1, C15_Ordinary) - 1)>>
       \o C15_Runs(SubSeq(s, RunEnd(s, 1, C15_Ordinary), Len(s)))

\* The node at the bottom of inline node n's spans.
RECURSIVE C15_Leaf(_)
C15_Leaf(n) ==
  IF n.kind \in {"Bold", "Italic", "Monospace", "Marker", "InlineCode"}
  THEN C15_Leaf(n.children) ELSE n

\* Node n is a Text that starts with an ordinary character; is a Text of
\* ordinary characters only.
C15_StartsOrdinary(n) == n.kind = "Value" /\ n.text[1] \in C15_Ordinary
C15_AllOrdinary(n) ==
  n.kind = "Value" /\ \A j \in 1..Len(n.text) : n.text[j] \in C15_Ordinary

\* The texts of the Text nodes of ordinary characters in child sequence c,
\* spans opened, in order.
C15_Texts(c) ==
  LET leaves == SelectSeq([k \in 1..Len(c) |-> C15_Leaf(c[k])], C15_StartsOrdinary)
  IN [k \in 1..Len(leaves) |-> leaves[k].text]

\* C15: in the child sequence the paragraph production returns, each maximal
\* run of consecutive ordinary characters of the input it consumed is
\* exactly one Text node holding exactly those characters, in order; and no
\* Text of ordinary characters is immediately followed by a Text that starts
\* with an ordinary character.
C15_MaximalMunch ==
  (Applied("paragraph_block") /\ IsOk(out)) =>
    /\ C15_Texts(out.val.children) = C15_Runs(SubSeq(src, 1, out.pos - 1))
    /\ \A k \in 1..(Len(out.val.children) - 1) :
         ~(C15_AllOrdinary(out.val.children[k])
             /\ C15_StartsOrdinary(out.val.children[k + 1]))

\* The paragraph production has run on two lines of two letters each and
\* returned each line as one Text.
C15_Witness ==
  /\ Applied("paragraph_block")
  /\ src = <<"b", "a", NL, "a", "b">>
  /\ out.val.children = <<Value(<<"b", "a">>), SoftBreak, Value(<<"a", "b">>)>>

\* C16: a block that starts with '*' is the unordered list production's:
\* the block production on a text that starts with '*' returns an unordered
\* list or fails; no Paragraph of a Document that parse returns has a Bold
\* node as its first child; and parse of '*', a letter run t, '*' is one
\* unordered list of the one item [Text(t), Text("*")], not
\* Paragraph{[Bold{Text(t)}]}.
C16_StarIsList ==
  /\ (Applied("block") /\ src # <<>> /\ src[1] = "*" /\ IsOk(out)) =>
       out.val.kind = "UnorderdList"
  /\ (Applied("parse") /\ IsOk(out)) =>
       \A k \in 1..Len(out.val) :
         out.val[k].kind = "Paragraph" => out.val[k].children[1].kind # "Bold"
  /\ Applied("parse") =>
       LET t == SubSeq(src, 2, Len(src) - 1)
       IN (t \in TextRuns /\ src = <<"*">> \o t \o <<"*">>) =>
            out = Whole(<<UnorderdList(<<Normal(<<Value(t), Value(<<"*">>)>>, 1)>>)>>,
                        src)

\* parse has run on a paragraph, a blank line and a letter run between two
\* '*', and returned the last as an unordered list.
C16_Witness ==
  /\ Applied("parse")
  /\ src = <<"a", NL, NL, "*", "b", "*">>
  /\ IsOk(out)
  /\ Len(out.val) = 3
  /\ out.val[3].kind = "UnorderdList"
====
